---- MODULE Spec2Model ----
(***************************************************************************)
(* Model of speech.cpp: the two C entry points PitchAnalyzer and           *)
(* PitchAnalyzer2, the pipeline __PitchAnalyzer they share, the owning     *)
(* structs _wavFile and _f0, the four statistics getPitch1..getPitch4 and  *)
(* the process-wide result object jsonResult.                              *)
(*                                                                         *)
(* A double is modelled exactly: a rational n/d in lowest terms, the       *)
(* square root of one (a surd), or one of the IEEE specials NaN and +-Inf  *)
(* that a zero divisor produces.  Rounding is not modelled.                *)
(***************************************************************************)
EXTENDS Integers, Sequences, FiniteSets, TLC

\* ------------------------------------------------------------------ bounds
\* Longest frequency array handed to the statistics on their own.
MaxFrames == 7
\* Largest frequency value of a frame (0 is an unvoiced frame).
MaxFreq == 1
\* Number of API calls a behaviour makes (leaked resources pile up per call).
MaxCalls == 2

\* ----------------------------------------------------------------- doubles
Abs(i) == IF i < 0 THEN -i ELSE i

RECURSIVE Gcd(_, _)
Gcd(a, b) == IF b = 0 THEN a ELSE Gcd(b, a % b)

Num(n, d) ==
  LET g == Gcd(Abs(n), Abs(d))
      s == IF d < 0 THEN -1 ELSE 1
  IN  [k |-> "num", n |-> (s * n) \div g, d |-> (s * d) \div g]

NaN == [k |-> "nan", n |-> 0, d |-> 1]
Inf(s) == [k |-> "inf", n |-> s, d |-> 1]
Zero == Num(0, 1)
FromInt(i) == Num(i, 1)

\* a + b
DAdd(a, b) ==
  CASE a.k = "nan" \/ b.k = "nan" -> NaN
    [] a.k = "inf" /\ b.k = "inf" -> IF a.n = b.n THEN a ELSE NaN
    [] a.k = "inf" -> a
    [] b.k = "inf" -> b
    [] OTHER -> Num(a.n * b.d + b.n * a.d, a.d * b.d)

DNeg(a) == IF a.k = "nan" THEN NaN ELSE [a EXCEPT !.n = -a.n]

\* a - b
DSub(a, b) == DAdd(a, DNeg(b))

\* a / i for an int i converted to double: x/0 is +-Inf, 0/0 is NaN
DDivInt(a, i) ==
  CASE a.k = "nan" -> NaN
    [] a.k = "inf" -> IF i < 0 THEN DNeg(a) ELSE a
    [] i = 0 -> IF a.n = 0 THEN NaN ELSE Inf(IF a.n < 0 THEN -1 ELSE 1)
    [] OTHER -> Num(a.n, a.d * i)

\* std::pow(a, 2)
DSquare(a) ==
  CASE a.k = "nan" -> NaN
    [] a.k = "inf" -> Inf(1)
    [] OTHER -> Num(a.n * a.n, a.d * a.d)

IsSquare(i) == \E r \in 0..i : r * r = i
IntRoot(i) == CHOOSE r \in 0..i : r * r = i

\* std::sqrt(a): exact when n/d is the square of a rational, a surd otherwise
DSqrt(a) ==
  CASE a.k = "nan" -> NaN
    [] a.k = "inf" -> IF a.n > 0 THEN a ELSE NaN
    [] a.n < 0 -> NaN
    [] IsSquare(a.n) /\ IsSquare(a.d) -> Num(IntRoot(a.n), IntRoot(a.d))
    [] OTHER -> [k |-> "sqrt", n |-> a.n, d |-> a.d]

\* -------------------------------------------------------------- statistics
\* dat[i] of the C array: element i+1 of the sequence; an index outside
\* [0, Len) reads whatever lies beside the array (junk).
At(dat, i, junk) ==
  IF i >= 0 /\ i < Len(dat) THEN FromInt(dat[i + 1]) ELSE FromInt(junk)

\* for (i = from; i < to; i++) sum += dat[i];
RECURSIVE SumLoop(_, _, _, _, _)
SumLoop(dat, i, to, sum, junk) ==
  IF i < to THEN SumLoop(dat, i + 1, to, DAdd(sum, At(dat, i, junk)), junk)
  ELSE sum

\* for (i = 0; i < n; i++) { if (dat[i] == 0.0) continue; sum += dat[i]; }
RECURSIVE SumNonZero(_, _, _, _)
SumNonZero(dat, i, to, sum) ==
  IF i < to
  THEN SumNonZero(dat, i + 1, to,
                  IF At(dat, i, 0) = Zero THEN sum ELSE DAdd(sum, At(dat, i, 0)))
  ELSE sum

\* for_each: sd += pow(each - mean, 2)
RECURSIVE SqDevLoop(_, _, _, _, _)
SqDevLoop(dat, i, to, mean, sd) ==
  IF i < to
  THEN SqDevLoop(dat, i + 1, to, mean,
                 DAdd(sd, DSquare(DSub(At(dat, i, 0), mean))))
  ELSE sd

\* for (i = from; i < to; i++) sum2 = dat[i];
RECURSIVE LastLoop(_, _, _, _, _)
LastLoop(dat, i, to, cur, junk) ==
  IF i < to THEN LastLoop(dat, i + 1, to, At(dat, i, junk), junk) ELSE cur

getPitch1(dat, dat_length) ==
  DDivInt(SumNonZero(dat, 0, dat_length, Zero), dat_length)

getPitch2(dat, dat_length) ==
  LET sum == SumLoop(dat, 0, dat_length, Zero, 0)
      mean == DDivInt(sum, dat_length)
      sd == SqDevLoop(dat, 0, dat_length, mean, Zero)
  IN  DSqrt(DDivInt(sd, dat_length))

getPitch3(dat, dat_length) ==
  LET sum1 == DDivInt(SumLoop(dat, 0, dat_length \div 2, Zero, 0),
                      dat_length \div 2)
      sum2 == DDivInt(SumLoop(dat, dat_length \div 2, dat_length, Zero, 0),
                      dat_length \div 2)
  IN  DSub(sum2, sum1)

\* getPitch4 with the second loop summing the last five frames (sum2 +=)
getPitch4Accumulating(dat, dat_length, junk) ==
  LET sum1 == DDivInt(SumLoop(dat, 0, dat_length - 5, Zero, junk),
                      dat_length - 5)
      sum2 == DDivInt(SumLoop(dat, dat_length - 5, dat_length, Zero, junk), 5)
  IN  DSub(sum2, sum1)

getPitch4(dat, dat_length, junk) ==
  LET sum1 == DDivInt(SumLoop(dat, 0, dat_length - 5, Zero, junk),
                      dat_length - 5)
      sum2 == DDivInt(LastLoop(dat, dat_length - 5, dat_length, Zero, junk), 5)
  IN  DSub(sum2, sum1)

\* The divisors each statistic divides by, and the indices it reads.
Divisors1(dat_length) == {dat_length}
Divisors2(dat_length) == {dat_length}
Divisors3(dat_length) == {dat_length \div 2}
Divisors4(dat_length) == {dat_length - 5, 5}
Reads1(dat_length) == 0..(dat_length - 1)
Reads2(dat_length) == 0..(dat_length - 1)
Reads3(dat_length) == (0..(dat_length \div 2 - 1)) \cup ((dat_length \div 2)..(dat_length - 1))
Reads4(dat_length) == (0..(dat_length - 6)) \cup ((dat_length - 5)..(dat_length - 1))

\* -------------------------------------------------------------------- text
\* A text is a sequence of characters.  The catalog errCode maps a status
\* code to its description.
Success == 0
FileNotFound == 1000
FileCannotBeRead == 1001
FileNotCorrectFormat == 1002
MemoryAllocationError == 3000

MsgSuccess ==
  <<"s", "u", "c", "c", "e", "s", "s">>

MsgFileNotFound ==
  <<"E", "r", "r", "o", "r", " ", ":", " ", "f", "i", "l", "e", " ", "n",
    "o", "t", " ", "f", "o", "u", "n", "d">>

MsgFileCannotBeRead ==
  <<"E", "r", "r", "o", "r", " ", ":", " ", "f", "i", "l", "e", " ", "c",
    "a", "n", "n", "o", "t", " ", "b", "e", " ", "r", "e", "a", "d">>

MsgFileNotCorrectFormat ==
  <<"E", "r", "r", "o", "r", " ", ":", " ", "f", "i", "l", "e", " ", "i",
    "s", " ", "n", "o", "t", " ", "o", "n", " ", "c", "o", "r", "r", "e",
    "c", "t", " ", "f", "o", "r", "m", "a", "t">>

MsgMemoryAllocationError ==
  <<"E", "r", "r", "o", "r", " ", ":", " ", "M", "e", "m", "o", "r", "y",
    " ", "A", "l", "l", "o", "c", "a", "t", "i", "o", "n", " ", "E", "r",
    "r", "o", "r">>

errCode ==
  [c \in {Success, FileNotFound, FileCannotBeRead, FileNotCorrectFormat,
          MemoryAllocationError} |->
     CASE c = Success -> MsgSuccess
       [] c = FileNotFound -> MsgFileNotFound
       [] c = FileCannotBeRead -> MsgFileCannotBeRead
       [] c = FileNotCorrectFormat -> MsgFileNotCorrectFormat
       [] OTHER -> MsgMemoryAllocationError]

\* std::bad_alloc::what()
BadAllocWhat ==
  <<"s", "t", "d", ":", ":", "b", "a", "d", "_", "a", "l", "l", "o", "c">>

Digit(i) == <<"0", "1", "2", "3", "4", "5", "6", "7", "8", "9">>[i + 1]

RECURSIVE NatChars(_)
NatChars(n) ==
  IF n < 10 THEN <<Digit(n)>> ELSE NatChars(n \div 10) \o <<Digit(n % 10)>>

IntChars(i) == IF i < 0 THEN <<"-">> \o NatChars(-i) ELSE NatChars(i)

\* The decimal digits of r/d (r < d) after the point, at most left of them.
RECURSIVE FracChars(_, _, _)
FracChars(r, d, left) ==
  IF r = 0 \/ left = 0 THEN <<>>
  ELSE <<Digit((10 * r) \div d)>> \o FracChars((10 * r) % d, d, left - 1)

\* floor(sqrt(m)), by bisection: lo * lo <= m < hi * hi
RECURSIVE IntSqrt(_, _, _)
IntSqrt(m, lo, hi) ==
  IF hi - lo <= 1 THEN lo
  ELSE LET mid == (lo + hi) \div 2
       IN  IF mid * mid <= m THEN IntSqrt(m, mid, hi) ELSE IntSqrt(m, lo, mid)

\* A rational as a JSON number: always with a fractional part ("2.0").  A
\* value whose expansion does not end is cut after 17 fractional digits.
RatChars(n, d) ==
  LET a == Abs(n)
      frac == FracChars(a % d, d, 17)
  IN  (IF n < 0 THEN <<"-">> ELSE <<>>) \o NatChars(a \div d) \o <<".">>
      \o (IF frac = <<>> THEN <<"0">> ELSE frac)

\* A double as JSON: NaN and the infinities are written null; a surd is
\* written to two fractional digits.
DoubleChars(v) ==
  CASE v.k = "num" -> RatChars(v.n, v.d)
    [] v.k = "sqrt" -> LET m == (v.n * 10000) \div v.d
                       IN  RatChars(IntSqrt(m, 0, IF m < 46340 THEN m + 1
                                                  ELSE 46341), 100)
    [] OTHER -> <<"n", "u", "l", "l">>

KeyStatus ==
  <<"{", "\"", "s", "t", "a", "t", "u", "s", "\"", ":", " ">>

KeyComment ==
  <<",", " ", "\"", "c", "o", "m", "m", "e", "n", "t", "\"", ":", " ", "\"">>

KeyPitch1 ==
  <<"\"", ",", " ", "\"", "p", "i", "t", "c", "h", "1", "\"", ":", " ">>

KeyPitch2 ==
  <<",", " ", "\"", "p", "i", "t", "c", "h", "2", "\"", ":", " ">>

KeyPitch3 ==
  <<",", " ", "\"", "p", "i", "t", "c", "h", "3", "\"", ":", " ">>

KeyPitch4 ==
  <<",", " ", "\"", "p", "i", "t", "c", "h", "4", "\"", ":", " ">>

\* jsonResult.dump()
dump(j) ==
  KeyStatus \o IntChars(j.status) \o KeyComment \o j.comment
  \o KeyPitch1 \o DoubleChars(j.pitch1) \o KeyPitch2 \o DoubleChars(j.pitch2)
  \o KeyPitch3 \o DoubleChars(j.pitch3) \o KeyPitch4 \o DoubleChars(j.pitch4)
  \o <<"}">>

\* x.copy(dst, count, 0) into a buffer holding old: min(count, x.length())
\* characters of x replace the first characters of old; nothing else is
\* written, no terminator either.  A buffer is held as its characters up to
\* the zero bytes that fill the rest of it.
StringCopy(x, old, count) ==
  LET n == IF count < Len(x) THEN count ELSE Len(x)
  IN  SubSeq(x, 1, n) \o SubSeq(old, n + 1, Len(old))

\* ------------------------------------------------------------- environment
\* The threads of the caller, the files it may name, and what the external
\* collaborators (fopen, GetAudioLength, GetSamplesForHarvest, Harvest) answer
\* for each file.
Threads == {1, 2}

Files == {"missing", "empty", "notwav", "short", "voiced"}

\* fopen_s(&file, fileName, "r") succeeds
CanOpen(f) == f # "missing"

\* GetAudioLength(fileName): the sample count, 0, or -1 for an error
GetAudioLength(f) ==
  CASE f = "empty" -> 0
    [] f = "notwav" -> -1
    [] f = "short" -> 10
    [] OTHER -> 2000

\* What Harvest writes to f0->f0: one frequency per frame.
Contour(f) ==
  CASE f = "short" -> <<3>>
    [] f = "voiced" -> <<0, 0, 0, 0, 0, 2, 2, 2, 2, 2>>
    [] OTHER -> <<>>

\* GetSamplesForHarvest(wav->fs, wav->length, option.frame_period)
GetSamplesForHarvest(f) == Len(Contour(f))

\* ------------------------------------------------------------------- state
VARIABLES
  jsonResult,  \* the process-wide result object
  heap,        \* live resources: [kind, call]
  ncalls,      \* API calls made so far
  pc,          \* per thread: where its call stands ("idle": not in a call)
  call,        \* per thread: [id, api, file] of its call
  f0,          \* per thread: f0->numOfFrame and f0->f0 of the _f0 it built
  fut,         \* per thread: the four futures ret1..ret4
  idx,         \* per thread: the next future to launch or to get
  err,         \* per thread: what __PitchAnalyzer returned
  dst,         \* per thread: the caller's output buffer of PitchAnalyzer
  last,        \* per thread: what its last finished call gave the caller
  done,        \* per thread: the steps of the pipeline its call has run
  prov,        \* per thread, per field: who wrote it since the call began
  dat,         \* the frequency array the statistics are tried on
  stat         \* their results on dat

vars == <<jsonResult, heap, ncalls, pc, call, f0, fut, idx, err, dst, last,
          done, prov, dat, stat>>
locals == <<call, f0, fut, idx, err>>
statVars == <<dat, stat>>

Fields == {"status", "comment", "pitch1", "pitch2", "pitch3", "pitch4"}
PitchField(i) == <<"pitch1", "pitch2", "pitch3", "pitch4">>[i]

NoCall == [id |-> 0, api |-> 0, file |-> "missing"]
NoF0 == [numOfFrame |-> 0, f0 |-> <<>>]
NoFuture == [st |-> "none", val |-> Zero]
NoFutures == [i \in 1..4 |-> NoFuture]
NoResult ==
  [outcome |-> "none", id |-> 0, api |-> 0, file |-> "missing", err |-> 0,
   ret |-> 0, json |-> [status |-> 0, comment |-> <<>>, pitch1 |-> Zero,
                        pitch2 |-> Zero, pitch3 |-> Zero, pitch4 |-> Zero],
   cstr |-> <<>>, done |-> {},
   prov |-> [x \in Fields |-> "stale"], live |-> {}]

\* jsonResult as the program starts: every key present, nothing computed.
InitJson ==
  [status |-> 0, comment |-> <<>>, pitch1 |-> Zero, pitch2 |-> Zero,
   pitch3 |-> Zero, pitch4 |-> Zero]

InitPipeline ==
  /\ jsonResult = InitJson
  /\ heap = {}
  /\ ncalls = 0
  /\ pc = [t \in Threads |-> "idle"]
  /\ call = [t \in Threads |-> NoCall]
  /\ f0 = [t \in Threads |-> NoF0]
  /\ fut = [t \in Threads |-> NoFutures]
  /\ idx = [t \in Threads |-> 0]
  /\ err = [t \in Threads |-> 0]
  /\ dst = [t \in Threads |-> <<>>]
  /\ last = [t \in Threads |-> NoResult]
  /\ done = [t \in Threads |-> {}]
  /\ prov = [t \in Threads |-> [x \in Fields |-> "stale"]]

Init ==
  /\ InitPipeline
  /\ dat = <<>>
  /\ stat = [i \in 1..4 |-> [st |-> "none", val |-> Zero]]

Alive == \A u \in Threads : pc[u] # "crashed"
AtPc(t, where) == Alive /\ pc[t] = where
Goto(t, where) == pc' = [pc EXCEPT ![t] = where]

Res(kind, id) == [kind |-> kind, call |-> id]
Mine(t) == {r \in heap : r.call = call[t].id}

\* The fields of jsonResult the next step of thread u may write, and those
\* it reads.  Nothing orders the accesses of two threads: when the pending
\* access of one conflicts with the pending access of another they race.
PendingWrites(u) ==
  CASE pc[u] = "fopen" /\ ~CanOpen(call[u].file) -> {"status"}
    [] pc[u] = "wav_length" /\ GetAudioLength(call[u].file) \in {0, -1} ->
         {"status"}
    [] pc[u] \in {"wav_buf", "f0_arr", "f0_tp"} -> {"status"}
    [] pc[u] \in {"fopen_comment", "wav_format_comment", "wav_alloc_comment",
                  "f0_alloc_comment", "finish"} -> {"comment"}
    [] pc[u] = "get" /\ fut[u][idx[u]].st \in {"done", "deferred"} ->
         {PitchField(idx[u])}
    [] OTHER -> {}

PendingReads(u) == IF pc[u] = "return" THEN Fields ELSE {}

Conflict(t, u) ==
  /\ u # t
  /\ \/ PendingWrites(t) \cap (PendingWrites(u) \cup PendingReads(u)) # {}
     \/ PendingReads(t) \cap PendingWrites(u) # {}

\* What a racing access may find or leave in place of the comment, a
\* std::string: text that is neither the old nor the new value.
Torn == <<"?">>

\* jsonResult.at(field) = value, by thread t.  A write of the comment that
\* races with an access of another thread may leave it torn.
Write(t, field, value) ==
  \E v \in {value} \cup
           (IF field = "comment" /\ \E u \in Threads : Conflict(t, u)
            THEN {Torn} ELSE {}) :
    /\ jsonResult' = [jsonResult EXCEPT ![field] = v]
    /\ prov' = [u \in Threads |->
                  IF u = t
                  THEN [prov[u] EXCEPT ![field] =
                          IF v = value THEN "self" ELSE "other"]
                  ELSE IF pc[u] \notin {"idle", "crashed"}
                       THEN [prov[u] EXCEPT ![field] = "other"]
                       ELSE prov[u]]

\* What jsonResult.dump() of thread t may read: the object as it is, or,
\* racing with a write of the comment, the object with the comment torn.
Seen(t) ==
  {[json |-> jsonResult, prov |-> prov[t]]} \cup
  (IF \E u \in Threads : u # t /\ PendingWrites(u) = {"comment"}
   THEN {[json |-> [jsonResult EXCEPT !.comment = Torn],
          prov |-> [prov[t] EXCEPT !["comment"] = "other"]]}
   ELSE {})

\* The call ends: the thread is idle again and the caller holds outcome.
Leave(t, outcome, ret, seen, cstr) ==
  /\ Goto(t, "idle")
  /\ last' = [last EXCEPT ![t] =
                [outcome |-> outcome, id |-> call[t].id, api |-> call[t].api,
                 file |-> call[t].file, err |-> err[t], ret |-> ret,
                 json |-> seen.json, cstr |-> cstr,
                 done |-> done[t], prov |-> seen.prov, live |-> Mine(t)]]
  /\ call' = [call EXCEPT ![t] = NoCall]
  /\ f0' = [f0 EXCEPT ![t] = NoF0]
  /\ fut' = [fut EXCEPT ![t] = NoFutures]
  /\ idx' = [idx EXCEPT ![t] = 0]
  /\ err' = [err EXCEPT ![t] = 0]
  /\ done' = [done EXCEPT ![t] = {}]

\* An exception nothing catches leaves the entry point.
Uncaught(t) ==
  /\ Leave(t, "uncaught", 0, [json |-> jsonResult, prov |-> prov[t]], <<>>)
  /\ UNCHANGED <<jsonResult, prov, heap, ncalls, dst>>

\* ---------------------------------------------------------------- pipeline
\* The caller enters PitchAnalyzer(fileName, dst) or PitchAnalyzer2(fileName);
\* both begin with __PitchAnalyzer(fileName).
Enter(t, api, f) ==
  /\ AtPc(t, "idle")
  /\ ncalls < MaxCalls
  /\ ncalls' = ncalls + 1
  /\ call' = [call EXCEPT ![t] = [id |-> ncalls + 1, api |-> api, file |-> f]]
  /\ prov' = [prov EXCEPT ![t] = [x \in Fields |-> "stale"]]
  /\ Goto(t, "fopen")
  /\ UNCHANGED <<jsonResult, heap, f0, fut, idx, err, dst, last, done>>

\* fopen_s fails: throw 1000, caught at once; status is written first
FopenFail(t) ==
  /\ AtPc(t, "fopen")
  /\ ~CanOpen(call[t].file)
  /\ Write(t, "status", FileNotFound)
  /\ Goto(t, "fopen_comment")
  /\ UNCHANGED <<heap, ncalls, locals, dst, last, done>>

\* ... then the comment, and __PitchAnalyzer returns 1000
FopenFailComment(t) ==
  /\ AtPc(t, "fopen_comment")
  /\ Write(t, "comment", errCode[FileNotFound])
  /\ err' = [err EXCEPT ![t] = FileNotFound]
  /\ Goto(t, "return")
  /\ UNCHANGED <<heap, ncalls, call, f0, fut, idx, dst, last, done>>

\* fopen_s succeeds
FopenOk(t) ==
  /\ AtPc(t, "fopen")
  /\ CanOpen(call[t].file)
  /\ heap' = heap \cup {Res("FILE", call[t].id)}
  /\ Goto(t, "fclose")
  /\ UNCHANGED <<jsonResult, prov, ncalls, locals, dst, last, done>>

\* std::fclose(file)
Fclose(t) ==
  /\ AtPc(t, "fclose")
  /\ heap' = heap \ {Res("FILE", call[t].id)}
  /\ Goto(t, "new_wav")
  /\ UNCHANGED <<jsonResult, prov, ncalls, locals, dst, last, done>>

\* new _wavFile(fileName): the storage of the object; std::bad_alloc is not
\* an int, so no handler of the call catches it
NewWavFile(t) ==
  /\ AtPc(t, "new_wav")
  /\ \/ /\ heap' = heap \cup {Res("wav", call[t].id)}
        /\ Goto(t, "wav_length")
        /\ UNCHANGED <<jsonResult, prov, ncalls, locals, dst, last, done>>
     \/ Uncaught(t)

\* WavLength testing only length == 0, so that -1 passes as a sample count
WavLengthOnlyZero(t) ==
  /\ AtPc(t, "wav_length")
  /\ IF GetAudioLength(call[t].file) = 0
     THEN /\ Write(t, "status", FileNotCorrectFormat)
          /\ Goto(t, "wav_format_comment")
     ELSE /\ Goto(t, "wav_buf")
          /\ UNCHANGED <<jsonResult, prov>>
  /\ done' = [done EXCEPT ![t] = @ \cup {"GetAudioLength"}]
  /\ UNCHANGED <<heap, ncalls, locals, dst, last>>

\* _wavFile::_wavFile: length = GetAudioLength(fileName); 0 or -1 throws 1002
WavLength(t) ==
  /\ AtPc(t, "wav_length")
  /\ IF GetAudioLength(call[t].file) \in {0, -1}
     THEN /\ Write(t, "status", FileNotCorrectFormat)
          /\ Goto(t, "wav_format_comment")
     ELSE /\ Goto(t, "wav_buf")
          /\ UNCHANGED <<jsonResult, prov>>
  /\ done' = [done EXCEPT ![t] = @ \cup {"GetAudioLength"}]
  /\ UNCHANGED <<heap, ncalls, locals, dst, last>>

\* ... the comment, then the rethrow: the constructor did not complete, the
\* storage of the object is given back, __PitchAnalyzer returns e
WavFormatComment(t) ==
  /\ AtPc(t, "wav_format_comment")
  /\ Write(t, "comment", errCode[FileNotCorrectFormat])
  /\ heap' = heap \ {Res("wav", call[t].id)}
  /\ err' = [err EXCEPT ![t] = FileNotCorrectFormat]
  /\ Goto(t, "return")
  /\ UNCHANGED <<ncalls, call, f0, fut, idx, dst, last, done>>

\* buf = new const double[length]{}; then wavread fills it
WavBuf(t) ==
  /\ AtPc(t, "wav_buf")
  /\ \/ /\ heap' = heap \cup {Res("wav.buf", call[t].id)}
        /\ Goto(t, "new_f0")
        /\ UNCHANGED <<jsonResult, prov>>
     \/ /\ Write(t, "status", MemoryAllocationError)
        /\ Goto(t, "wav_alloc_comment")
        /\ UNCHANGED heap
  /\ UNCHANGED <<ncalls, locals, dst, last, done>>

\* ... the comment, throw 3000 out of the constructor, return e
WavAllocComment(t) ==
  /\ AtPc(t, "wav_alloc_comment")
  /\ Write(t, "comment", errCode[MemoryAllocationError] \o BadAllocWhat)
  /\ heap' = heap \ {Res("wav", call[t].id)}
  /\ err' = [err EXCEPT ![t] = MemoryAllocationError]
  /\ Goto(t, "return")
  /\ UNCHANGED <<ncalls, call, f0, fut, idx, dst, last, done>>

\* new _f0(GetSamplesForHarvest(...)): the storage of the object; a
\* std::bad_alloc here is caught by nothing either
NewF0(t) ==
  /\ AtPc(t, "new_f0")
  /\ \/ /\ heap' = heap \cup {Res("f0", call[t].id)}
        /\ f0' = [f0 EXCEPT ![t] =
                    [numOfFrame |-> GetSamplesForHarvest(call[t].file),
                     f0 |-> [i \in 1..GetSamplesForHarvest(call[t].file) |-> 0]]]
        /\ Goto(t, "f0_arr")
        /\ UNCHANGED <<jsonResult, prov, ncalls, call, fut, idx, err, dst,
                       last, done>>
     \/ Uncaught(t)

\* _f0::_f0: f0 = new double[numOfFrame]{}
F0Array(t) ==
  /\ AtPc(t, "f0_arr")
  /\ \/ /\ heap' = heap \cup {Res("f0.f0", call[t].id)}
        /\ Goto(t, "f0_tp")
        /\ UNCHANGED <<jsonResult, prov>>
     \/ /\ Write(t, "status", MemoryAllocationError)
        /\ Goto(t, "f0_alloc_comment")
        /\ UNCHANGED heap
  /\ UNCHANGED <<ncalls, locals, dst, last, done>>

\* _f0::_f0: temporalPossition = new double[numOfFrame]{}
F0TemporalPossition(t) ==
  /\ AtPc(t, "f0_tp")
  /\ \/ /\ heap' = heap \cup {Res("f0.temporalPossition", call[t].id)}
        /\ Goto(t, "harvest")
        /\ UNCHANGED <<jsonResult, prov>>
     \/ /\ Write(t, "status", MemoryAllocationError)
        /\ Goto(t, "f0_alloc_comment")
        /\ UNCHANGED heap
  /\ UNCHANGED <<ncalls, locals, dst, last, done>>

\* ... the comment, throw 3000 out of the constructor: ~_f0 does not run, the
\* storage of the object is given back; the handler deletes f0, still null,
\* and returns e with wav never deleted
F0AllocComment(t) ==
  /\ AtPc(t, "f0_alloc_comment")
  /\ Write(t, "comment", errCode[MemoryAllocationError] \o BadAllocWhat)
  /\ heap' = heap \ {Res("f0", call[t].id)}
  /\ err' = [err EXCEPT ![t] = MemoryAllocationError]
  /\ Goto(t, "return")
  /\ UNCHANGED <<ncalls, call, f0, fut, idx, dst, last, done>>

\* Harvest(wav->buf, ..., f0->temporalPossition, f0->f0)
Harvest(t) ==
  /\ AtPc(t, "harvest")
  /\ f0' = [f0 EXCEPT ![t].f0 = Contour(call[t].file)]
  /\ done' = [done EXCEPT ![t] = @ \cup {"Harvest"}]
  /\ idx' = [idx EXCEPT ![t] = 1]
  /\ Goto(t, "async")
  /\ UNCHANGED <<jsonResult, prov, heap, ncalls, call, fut, err, dst, last>>

TaskName(i) == <<"getPitch1", "getPitch2", "getPitch3", "getPitch4">>[i]
Reads(i, n) ==
  CASE i = 1 -> Reads1(n) [] i = 2 -> Reads2(n) [] i = 3 -> Reads3(n)
    [] OTHER -> Reads4(n)
Divisors(i, n) ==
  CASE i = 1 -> Divisors1(n) [] i = 2 -> Divisors2(n) [] i = 3 -> Divisors3(n)
    [] OTHER -> Divisors4(n)
OutOfBounds(i, n) == \E r \in Reads(i, n) : r < 0 \/ r >= n

\* What running statistic i on d can give: its value, for whatever the
\* memory beside the array holds, or, when it reads outside the array, the
\* end of the process.
TaskOutcomes(i, d) ==
  LET n == Len(d)
      vals == CASE i = 1 -> {getPitch1(d, n)}
                [] i = 2 -> {getPitch2(d, n)}
                [] i = 3 -> {getPitch3(d, n)}
                [] OTHER -> {getPitch4(d, n, junk) : junk \in 0..MaxFreq}
  IN  {[crash |-> FALSE, val |-> v] : v \in vals}
      \cup (IF OutOfBounds(i, n) THEN {[crash |-> TRUE, val |-> Zero]} ELSE {})

\* ret<i> = std::async(&getPitch<i>, f0->f0, f0->numOfFrame): with the
\* default policy the task runs on a thread of its own or is deferred to get()
Async(t) ==
  /\ AtPc(t, "async")
  /\ \E st \in {"running", "deferred"} :
       fut' = [fut EXCEPT ![t][idx[t]].st = st]
  /\ IF idx[t] < 4
     THEN /\ idx' = [idx EXCEPT ![t] = @ + 1]
          /\ UNCHANGED pc
     ELSE /\ idx' = [idx EXCEPT ![t] = 1]
          /\ Goto(t, "get")
  /\ UNCHANGED <<jsonResult, prov, heap, ncalls, call, f0, err, dst, last,
                 done>>

\* A launched task runs getPitch<i> on the array of its call.
TaskRun(t, i) ==
  /\ Alive
  /\ fut[t][i].st = "running"
  /\ \E o \in TaskOutcomes(i, f0[t].f0) :
       IF o.crash
       THEN /\ Goto(t, "crashed")
            /\ UNCHANGED <<fut, done>>
       ELSE /\ fut' = [fut EXCEPT ![t][i] = [st |-> "done", val |-> o.val]]
            /\ done' = [done EXCEPT ![t] = @ \cup {TaskName(i)}]
            /\ UNCHANGED pc
  /\ UNCHANGED <<jsonResult, prov, heap, ncalls, call, f0, idx, err, dst,
                 last>>

\* Ready reading the result of a launched task without waiting for it
ReadyWithoutWaiting(t, i) == fut[t][i].st # "none"

\* ret<i>.get() returns once the task has a result; a deferred task runs in
\* the get() itself
Ready(t, i) == fut[t][i].st \in {"done", "deferred"}

\* jsonResult.at("pitch<i>") = ret<i>.get()
Get(t) ==
  /\ AtPc(t, "get")
  /\ Ready(t, idx[t])
  /\ LET i == idx[t]
         deferred == fut[t][i].st = "deferred"
     IN  \E o \in (IF deferred THEN TaskOutcomes(i, f0[t].f0)
                   ELSE {[crash |-> FALSE, val |-> fut[t][i].val]}) :
           IF o.crash
           THEN /\ Goto(t, "crashed")
                /\ UNCHANGED <<jsonResult, prov, fut, idx, done>>
           ELSE /\ Write(t, PitchField(i), o.val)
                /\ fut' = [fut EXCEPT ![t][i] = [st |-> "got", val |-> o.val]]
                /\ done' = [done EXCEPT ![t] =
                              IF deferred THEN @ \cup {TaskName(i)} ELSE @]
                /\ IF i < 4
                   THEN /\ idx' = [idx EXCEPT ![t] = @ + 1]
                        /\ UNCHANGED pc
                   ELSE /\ idx' = [idx EXCEPT ![t] = 0]
                        /\ Goto(t, "finish")
  /\ UNCHANGED <<heap, ncalls, call, f0, err, dst, last>>

\* Finish without the write of the comment
FinishWithoutComment(t) ==
  /\ AtPc(t, "finish")
  /\ heap' = heap \ {Res(k, call[t].id) :
                       k \in {"f0", "f0.f0", "f0.temporalPossition", "wav",
                              "wav.buf"}}
  /\ err' = [err EXCEPT ![t] = 0]
  /\ Goto(t, "return")
  /\ UNCHANGED <<jsonResult, prov, ncalls, call, f0, fut, idx, dst, last, done>>

\* jsonResult.at("comment") = errCode.at(0); delete f0; delete wav; return {}
Finish(t) ==
  /\ AtPc(t, "finish")
  /\ Write(t, "comment", errCode[Success])
  /\ heap' = heap \ {Res(k, call[t].id) :
                       k \in {"f0", "f0.f0", "f0.temporalPossition", "wav",
                              "wav.buf"}}
  /\ err' = [err EXCEPT ![t] = 0]
  /\ Goto(t, "return")
  /\ UNCHANGED <<ncalls, call, f0, fut, idx, dst, last, done>>

\* PitchAnalyzer: x = jsonResult.dump(); x.copy(dst, x.length() + 1, 0);
\* return err
PitchAnalyzerReturn(t) ==
  /\ AtPc(t, "return")
  /\ call[t].api = 1
  /\ \E seen \in Seen(t) :
       LET x == dump(seen.json)
           out == StringCopy(x, dst[t], Len(x) + 1)
       IN  /\ dst' = [dst EXCEPT ![t] = out]
           /\ Leave(t, "returned", err[t], seen, out)
  /\ UNCHANGED <<jsonResult, prov, heap, ncalls>>

\* PitchAnalyzer2: x = jsonResult.dump(); json_return = new char[x.length()
\* + 1]{}; x.copy(json_return, x.length(), 0); return json_return.  The
\* caller owns the buffer; a std::bad_alloc of the new leaves uncaught.
PitchAnalyzer2Return(t) ==
  /\ AtPc(t, "return")
  /\ call[t].api = 2
  /\ \/ \E seen \in Seen(t) :
          LET x == dump(seen.json)
          IN  /\ Leave(t, "returned", 0, seen, StringCopy(x, <<>>, Len(x)))
              /\ UNCHANGED <<jsonResult, prov, heap, ncalls, dst>>
     \/ Uncaught(t)

\* One step of the call of thread t.
Step(t) ==
  \/ FopenFail(t) \/ FopenFailComment(t) \/ FopenOk(t) \/ Fclose(t)
  \/ NewWavFile(t) \/ WavLength(t) \/ WavFormatComment(t)
  \/ WavBuf(t) \/ WavAllocComment(t)
  \/ NewF0(t) \/ F0Array(t) \/ F0TemporalPossition(t) \/ F0AllocComment(t)
  \/ Harvest(t) \/ Async(t) \/ (\E i \in 1..4 : TaskRun(t, i)) \/ Get(t)
  \/ Finish(t) \/ PitchAnalyzerReturn(t) \/ PitchAnalyzer2Return(t)

\* Calls made one after the other, as the interface is meant to be used.
EnterSequential(t) ==
  /\ \A u \in Threads : pc[u] = "idle"
  /\ t = 1
  /\ \E api \in {1, 2}, f \in Files : Enter(t, api, f)

Next ==
  /\ \E t \in Threads : EnterSequential(t) \/ Step(t)
  /\ UNCHANGED statVars

Spec == Init /\ [][Next]_vars

\* Two threads calling with no coordination, each on a file of its own.
ConcurrentFiles == {"missing", "notwav", "voiced"}

EnterConcurrent(t) ==
  \E api \in {1, 2}, f \in ConcurrentFiles :
    /\ \A u \in Threads : pc[u] # "idle" => call[u].file # f
    /\ Enter(t, api, f)

\* A data race on jsonResult is undefined behaviour: besides taking effect
\* as one of the two orders of the accesses, or tearing the comment, it may
\* end the process.
RaceCrash(t) ==
  /\ Alive
  /\ \E u \in Threads : Conflict(t, u)
  /\ Goto(t, "crashed")
  /\ UNCHANGED <<jsonResult, prov, heap, ncalls, locals, dst, last, done>>

NextConcurrent ==
  /\ \E t \in Threads : EnterConcurrent(t) \/ Step(t) \/ RaceCrash(t)
  /\ UNCHANGED statVars

SpecConcurrent == Init /\ [][NextConcurrent]_vars

\* ------------------------------------------------ the statistics by themselves
FreqArrays ==
  UNION {[1..n -> 0..MaxFreq] : n \in 1..MaxFrames}

InitStat ==
  /\ InitPipeline
  /\ dat \in FreqArrays
  /\ stat = [i \in 1..4 |-> [st |-> "none", val |-> Zero]]

\* getPitch<i>(dat, Len(dat)) is called and its result kept
RunStat(i) ==
  /\ stat[i].st = "none"
  /\ \E o \in TaskOutcomes(i, dat) :
       stat' = [stat EXCEPT ![i] =
                  [st |-> IF o.crash THEN "crashed" ELSE "done", val |-> o.val]]
  /\ UNCHANGED <<jsonResult, heap, ncalls, pc, call, f0, fut, idx, err, dst,
                 last, done, prov, dat>>

NextStat == \E i \in 1..4 : RunStat(i)

SpecStat == InitStat /\ [][NextStat]_vars

\* ------------------------------------------------------------------ claims
Returned(t) == last[t].outcome = "returned"
Finished(t) == last[t].outcome # "none"
FailureCodes == {FileNotFound, FileNotCorrectFormat, MemoryAllocationError}
AllTasks == {TaskName(i) : i \in 1..4}

\* C1: the status a call serializes is 0 exactly when the pipeline of that
\* call succeeded, whatever calls came before it; a successful call
\* serializes comment "success" with that status.
C1_StatusZeroIffOwnSuccess ==
  \A t \in Threads :
    Returned(t) =>
      /\ (last[t].json.status = 0) <=> (last[t].err = 0)
      /\ last[t].err = 0 => last[t].json.comment = MsgSuccess

\* C2: a file that cannot be opened gives status 1000 with the catalog's
\* comment, and PitchAnalyzer returns 1000; a file whose length probe answers
\* 0 or -1 gives 1002 likewise; in both cases neither Harvest nor any
\* statistic has run, and PitchAnalyzer does return.
C2_OpenAndFormatFailures ==
  \A t \in Threads :
    /\ (Finished(t) /\ ~CanOpen(last[t].file)) =>
         /\ last[t].api = 1 => Returned(t) /\ last[t].ret = FileNotFound
         /\ Returned(t) =>
              /\ last[t].json.status = FileNotFound
              /\ last[t].json.comment = errCode[FileNotFound]
              /\ last[t].err = FileNotFound
              /\ last[t].done = {}
    /\ (Finished(t) /\ "GetAudioLength" \in last[t].done
          /\ GetAudioLength(last[t].file) \in {0, -1}) =>
         /\ last[t].api = 1 =>
              Returned(t) /\ last[t].ret = FileNotCorrectFormat
         /\ Returned(t) =>
              /\ last[t].json.status = FileNotCorrectFormat
              /\ last[t].json.comment = errCode[FileNotCorrectFormat]
              /\ last[t].err = FileNotCorrectFormat
              /\ last[t].done = {"GetAudioLength"}

\* C2 witness: a call on a file of invalid format has returned 1002 after an
\* earlier call that succeeded (its pitch values are still in the object).
C2_Witness ==
  /\ Returned(1)
  /\ last[1].id = 2
  /\ last[1].api = 1
  /\ GetAudioLength(last[1].file) = -1
  /\ last[1].ret = FileNotCorrectFormat
  /\ last[1].json.pitch1 # Zero

\* C3: no call ends with an exception leaving the entry point, and a failed
\* pipeline makes PitchAnalyzer return a nonzero code.
C3_NoExceptionLeavesTheEntryPoint ==
  \A t \in Threads :
    Finished(t) =>
      /\ Returned(t)
      /\ (last[t].api = 1 /\ last[t].err # 0) => last[t].ret # 0

\* C4: a call that has returned owns no live file handle, sample buffer or
\* frequency/time buffer.
C4_NothingLiveAfterReturn ==
  \A t \in Threads : Returned(t) => last[t].live = {}

\* C5 (as stated): the tasks are launched only after Harvest, and no pitch
\* field is written before all four tasks have completed.
C5_NoPitchWrittenBeforeAllTasksDone ==
  \A t \in Threads :
    /\ (\E i \in 1..4 : fut[t][i].st # "none") => "Harvest" \in done[t]
    /\ (\E i \in 1..4 : fut[t][i].st = "got") => AllTasks \subseteq done[t]

\* C5 (amended): the tasks are launched only after Harvest; pitch field i is
\* written only after task i has completed, the fields in the order 1..4;
\* the comment "success" is written only after all four have completed.
C5_EachPitchWrittenAfterItsOwnTask ==
  \A t \in Threads :
    /\ (\E i \in 1..4 : fut[t][i].st # "none") => "Harvest" \in done[t]
    /\ \A i \in 1..4 :
         fut[t][i].st = "got" =>
           /\ TaskName(i) \in done[t]
           /\ fut[t][i].val \in {o.val : o \in TaskOutcomes(i, f0[t].f0)}
           /\ \A j \in 1..i : fut[t][j].st = "got"
    /\ (pc[t] = "finish" \/ (pc[t] = "return" /\ err[t] = 0)) =>
         AllTasks \subseteq done[t]

\* C5 witness: pitch1 is written while the fourth task has not completed.
C5_Witness ==
  \E t \in Threads :
    /\ fut[t][1].st = "got"
    /\ prov[t]["pitch1"] = "self"
    /\ fut[t][4].st = "running"
    /\ "getPitch4" \notin done[t]

\* C6: a call that failed serializes pitch1..pitch4 all zero, whatever calls
\* came before it.
C6_FailedCallSerializesZeroPitch ==
  \A t \in Threads :
    (Returned(t) /\ last[t].err \in FailureCodes) =>
      \A i \in 1..4 : last[t].json[PitchField(i)] = Zero

\* What the pipeline writes for file f when nothing interferes.
OwnPitch(f, i) == {o.val : o \in TaskOutcomes(i, Contour(f))}

\* C7: with two threads calling concurrently, whatever a successful call
\* serializes that is not its own result (a nonzero status, a comment other
\* than "success", a pitch value it did not compute) was written into the
\* shared object by another call: the status by a failing call, the comment and
\* the pitch values by the call of the other thread while this one ran.
C7_ForeignFieldsComeFromTheOtherCall ==
  \A t \in Threads :
    (Returned(t) /\ last[t].err = 0) =>
      /\ last[t].prov["status"] # "self"
      /\ last[t].json.status # 0 => last[t].json.status \in FailureCodes
      /\ last[t].json.comment # MsgSuccess => last[t].prov["comment"] = "other"
      /\ \A i \in 1..4 :
           last[t].json[PitchField(i)] \notin OwnPitch(last[t].file, i) =>
             last[t].prov[PitchField(i)] = "other"

\* C7 witness: a call whose pipeline succeeded has serialized the status and
\* the comment that the failing call of the other thread wrote meanwhile.
C7_Witness ==
  \E t \in Threads :
    /\ Returned(t)
    /\ last[t].err = 0
    /\ last[t].prov["status"] = "other"
    /\ last[t].json.status = FileNotFound
    /\ last[t].prov["comment"] = "other"
    /\ last[t].json.comment = errCode[FileNotFound]
    /\ \A i \in 1..4 : last[t].prov[PitchField(i)] = "self"

\* C8: the C string the caller finds (in dst after PitchAnalyzer, in the
\* buffer PitchAnalyzer2 returns) is exactly the serialization of the call.
C8_CStringIsTheSerialization ==
  \A t \in Threads : Returned(t) => last[t].cstr = dump(last[t].json)

RECURSIVE SeqSum(_)
SeqSum(s) == IF s = <<>> THEN 0 ELSE Head(s) + SeqSum(Tail(s))

\* the average of frames [0, F-5), and the last frame divided by 5
HeadAverage(d) == Num(SeqSum(SubSeq(d, 1, Len(d) - 5)), Len(d) - 5)
LastFifth(d) == Num(d[Len(d)], 5)

\* d with frames F-5..F-2 replaced by the four values of w
WithTail(d, w) ==
  [i \in 1..Len(d) |->
     IF i >= Len(d) - 4 /\ i <= Len(d) - 1 THEN w[i - (Len(d) - 5)] ELSE d[i]]

C10_NoZeroDivisorNoReadOutside ==
  \A i \in 1..4 :
    stat[i].st # "none" =>
      /\ 0 \notin Divisors(i, Len(dat))
      /\ ~OutOfBounds(i, Len(dat))
      /\ stat[i].val.k \in {"num", "sqrt"}

====
